---- MODULE Spec2Model ----
(***************************************************************************)
(* The agent execution core of nerve: the shared State                     *)
(* (src/agent/state/mod.rs), the http namespace                            *)
(* (src/agent/namespaces/http/mod.rs) and the driver loop (src/main.rs).   *)
(*                                                                         *)
(* Spec     - a caller exercising the State object through its public      *)
(*            methods in any order.                                        *)
(* SpecRun  - the driver loop of main() invoking Agent::step.              *)
(* FairRun  - SpecRun with the progress the driver loop guarantees.        *)
(***************************************************************************)
EXTENDS Integers, Sequences, FiniteSets, TLC

VARIABLES
    task,           \* State.task       : Box<dyn Task>
    lock,           \* the tokio Mutex of SharedState: "free" or its holder
    namespaces,     \* State.namespaces : Vec<Namespace>
    storages,       \* State.storages   : HashMap<String, Storage>
    history,        \* State.history    : History (Vec<Execution>)
    rag,            \* State.rag        : Option<VectorStore>, TRUE when Some
    complete,       \* State.complete   : bool
    metrics,        \* State.metrics    : current_step, max_steps
    events_open,    \* the receiving end of State.events_tx is still alive
    variables,      \* the task variables that are defined
    pc,             \* position of the driver (main's while loop / Agent::step)
    invocation,     \* the Invocation parsed by the step in progress
    ret,            \* the last State method called and what it returned
    calls           \* how many times on_step / the history appenders /
                    \* Agent::step were called so far

vars == <<task, lock, namespaces, storages, history, rag, complete, metrics, events_open,
          variables, pc, invocation, ret, calls>>

----------------------------------------------------------------------------
(* Bounds of the model *)

\* largest step budget (max_iterations) a run is constructed with
MaxBudget == 3
\* the history appenders are called at most MaxHistory times
MaxHistory == 3
\* to_chat_history is called with max in 0 .. MaxWindow
MaxWindow == 2

\* on_step is called at most MaxCalls times: once past the largest budget
MaxCalls == MaxBudget + 1

None == "None"

\* the value () of a method that returns nothing
Unit == [unit |-> TRUE]

----------------------------------------------------------------------------
(* Namespaces, actions and the registry *)

\* StorageDescriptor::tagged("http-headers")
HttpHeaders == [name |-> "http-headers", type_ |-> "tagged"]

\* http::get_namespace(): Namespace::new_non_default("Web", ..)
HttpNamespace ==
    [name |-> "Web", default |-> FALSE,
     actions |-> <<"http-set-header", "http-clear-headers", "http-request">>,
     storages |-> <<HttpHeaders>>]

\* the namespace holding the action that signals the end of the task
TaskNamespace ==
    [name |-> "Task", default |-> TRUE,
     actions |-> <<"task-complete">>,
     storages |-> <<>>]

\* a default namespace that declares an untagged storage
GoalNamespace ==
    [name |-> "Goal", default |-> TRUE,
     actions |-> <<"update-goal">>,
     storages |-> <<[name |-> "goal", type_ |-> "untagged"]>>]

\* the retrieval namespace pushed when the task has a rag configuration
RagNamespace ==
    [name |-> "Knowledge", default |-> FALSE,
     actions |-> <<"search">>,
     storages |-> <<>>]

\* namespaces::NAMESPACES: registry key -> factory, in iteration order
RegistryKeys == <<"task", "goal", "http", "rag">>

NAMESPACES(key) ==
    CASE key = "task" -> TaskNamespace
      [] key = "goal" -> GoalNamespace
      [] key = "http" -> HttpNamespace
      [] key = "rag"  -> RagNamespace

IsRegistered(key) == \E i \in 1..Len(RegistryKeys) : RegistryKeys[i] = key

\* for build_fn in NAMESPACES.values() { if ns.default { namespaces.push(ns) } }
RECURSIVE DefaultsFrom(_)
DefaultsFrom(i) ==
    IF i > Len(RegistryKeys) THEN <<>>
    ELSE LET ns == NAMESPACES(RegistryKeys[i])
         IN  (IF ns.default THEN <<ns>> ELSE <<>>) \o DefaultsFrom(i + 1)

DefaultNamespaces == DefaultsFrom(1)

\* using.iter().position(|n| n == "*"): 0 when there is none
RECURSIVE PositionFrom(_, _)
PositionFrom(using, i) ==
    IF i > Len(using) THEN 0
    ELSE IF using[i] = "*" THEN i ELSE PositionFrom(using, i + 1)

\* using.remove(idx)
RemoveAt(s, idx) == SubSeq(s, 1, idx - 1) \o SubSeq(s, idx + 1, Len(s))

\* for used_ns_name in &using { NAMESPACES.get(name) .. push / return Err }
RECURSIVE ExplicitFrom(_, _)
ExplicitFrom(using, i) ==
    IF i > Len(using) THEN [ok |-> TRUE, list |-> <<>>, err |-> None]
    ELSE IF ~IsRegistered(using[i])
         THEN [ok |-> FALSE, list |-> <<>>, err |-> using[i]]
         ELSE LET rest == ExplicitFrom(using, i + 1)
              IN  IF rest.ok
                  THEN [rest EXCEPT !.list = <<NAMESPACES(using[i])>> \o @]
                  ELSE rest

NotDefault(ns) == ~ns.default

\* a resolution that skips the explicit names the wildcard already added
ResolveNamespaces_dedup(tk) ==
    IF tk.namespaces.some
    THEN LET using == tk.namespaces.val
             idx   == PositionFrom(using, 1)
             wild  == IF idx > 0 THEN DefaultNamespaces ELSE <<>>
             rest  == IF idx > 0 THEN RemoveAt(using, idx) ELSE using
             expl  == ExplicitFrom(rest, 1)
         IN  IF expl.ok
             THEN [expl EXCEPT !.list =
                      wild \o (IF idx > 0 THEN SelectSeq(@, NotDefault) ELSE @)]
             ELSE expl
    ELSE [ok |-> TRUE, list |-> DefaultNamespaces, err |-> None]

\* the namespace resolution of State::new: [ok, list, err]
ResolveNamespaces(tk) ==
    IF tk.namespaces.some
    THEN LET using == tk.namespaces.val
             idx   == PositionFrom(using, 1)
             wild  == IF idx > 0 THEN DefaultNamespaces ELSE <<>>
             rest  == IF idx > 0 THEN RemoveAt(using, idx) ELSE using
             expl  == ExplicitFrom(rest, 1)
         IN  IF expl.ok
             THEN [expl EXCEPT !.list = wild \o @]
             ELSE expl
    ELSE [ok |-> TRUE, list |-> DefaultNamespaces, err |-> None]

\* the storage descriptors of a namespace list, in declaration order
RECURSIVE Declared(_)
Declared(nss) ==
    IF nss = <<>> THEN <<>>
    ELSE Head(nss).storages \o Declared(Tail(nss))

\* Storage::new(name, type_, events_tx): an empty storage of that type
Storage_new(name, type_) == [type_ |-> type_, data |-> {}, current |-> None]

\* storage creation where a later declaration replaces the storage
RECURSIVE CreateStorages_overwrite(_, _)
CreateStorages_overwrite(descs, acc) ==
    IF descs = <<>> THEN acc
    ELSE LET d == Head(descs)
         IN  CreateStorages_overwrite(Tail(descs),
                 [n \in DOMAIN acc \cup {d.name} |->
                     IF n = d.name THEN Storage_new(d.name, d.type_)
                     ELSE acc[n]])

\* if !storages.contains_key(&storage.name) { storages.insert(..) }
RECURSIVE CreateStorages(_, _)
CreateStorages(descs, acc) ==
    IF descs = <<>> THEN acc
    ELSE LET d == Head(descs)
         IN  IF d.name \in DOMAIN acc
             THEN CreateStorages(Tail(descs), acc)
             ELSE CreateStorages(Tail(descs),
                      [n \in DOMAIN acc \cup {d.name} |->
                          IF n = d.name THEN Storage_new(d.name, d.type_)
                          ELSE acc[n]])

\* let mut storages = HashMap::new()
NoStorages == [n \in {} |-> Storage_new(n, None)]

\* if let Some(goal) = storages.get_mut("goal") { goal.set_current(&prompt) }
SeedGoal(st) ==
    IF "goal" \in DOMAIN st
    THEN [st EXCEPT !["goal"].current = "prompt"]
    ELSE st

\* State::new(events_tx, task, embedder, max_iterations)
State_new(tk, max_iterations) ==
    LET res == ResolveNamespaces(tk)
        nss == res.list
                 \o (IF tk.rag_config THEN <<NAMESPACES("rag")>> ELSE <<>>)
                 \o tk.functions
    IN  IF ~res.ok
        THEN [ok |-> FALSE, err |-> res.err]
        ELSE [ok |-> TRUE, err |-> None,
              namespaces |-> nss,
              storages |-> SeedGoal(CreateStorages(Declared(nss), NoStorages)),
              history |-> <<>>,
              rag |-> tk.rag_config,
              complete |-> FALSE,
              metrics |-> [current_step |-> 0, max_steps |-> max_iterations]]

----------------------------------------------------------------------------
(* The tasks a run is constructed from *)

Some(v) == [some |-> TRUE, val |-> v]
Absent == [some |-> FALSE, val |-> <<>>]

TaskNamespaceLists ==
    {Absent, Some(<<"*", "http">>), Some(<<"missing">>)}

Tasks ==
    [namespaces : TaskNamespaceLists,
     rag_config : BOOLEAN,
     functions  : {<<>>}]

Budgets == 0..MaxBudget

----------------------------------------------------------------------------
(* History and its Executions *)

NoInvocation == [action |-> None]

\* Execution::with_result(invocation, result)
with_result(inv, result) ==
    [invocation |-> inv, response |-> None, result |-> result, error |-> None]

\* Execution::with_error(invocation, error)
with_error(inv, error) ==
    [invocation |-> inv, response |-> None, result |-> None, error |-> error]

\* Execution::with_unparsed_response(response, error)
with_unparsed_response(response, error) ==
    [invocation |-> NoInvocation, response |-> response, result |-> None,
     error |-> error]

\* History::push
History_push(h, execution) == Append(h, execution)

\* the message pair one Execution is rendered to
Render(e) == <<[role |-> "agent", of |-> e], [role |-> "feedback", of |-> e]>>

RECURSIVE RenderAll(_)
RenderAll(h) == IF h = <<>> THEN <<>> ELSE Render(Head(h)) \o RenderAll(Tail(h))

\* History::to_chat_history(max): the latest max entries, or all of them
History_to_chat_history(h, max) ==
    LET latest == IF Len(h) > max
                  THEN SubSeq(h, Len(h) - max + 1, Len(h))
                  ELSE h
    IN  RenderAll(latest)

----------------------------------------------------------------------------
(* The methods of State *)

\* on_step without the increment
on_step_counter_stuck(m) == m.current_step

\* on_step: the counter after the increment
on_step_counter(m) == m.current_step + 1

\* on_step failing one call late
on_step_fails_late(m) == m.max_steps > 0 /\ m.current_step > m.max_steps

\* on_step without the test for an unlimited budget
on_step_fails_unlimited(m) == m.current_step >= m.max_steps

\* on_step: the condition of the maximum-steps error, on the incremented counter
on_step_fails(m) == m.max_steps > 0 /\ m.current_step >= m.max_steps

\* State::on_step
on_step ==
    LET m == [metrics EXCEPT !.current_step = on_step_counter(metrics)]
    IN  /\ metrics' = m
        /\ ret' = [op |-> "on_step", ok |-> ~on_step_fails(m), val |-> Unit]
        /\ calls' = [calls EXCEPT !.on_step = @ + 1]

\* rag_query answering with no documents when there is no store
rag_query_ok_empty(r) == TRUE

\* State::rag_query: Err("no RAG engine has been configured") without a store
rag_query_ok(r) == r

\* to_chat_history asking for one entry too many
to_chat_history_wide(h, max) == History_to_chat_history(h, max + 1)

\* State::to_chat_history
to_chat_history(h, max) == History_to_chat_history(h, max)

\* a lookup that creates the storage it does not find
get_storage_ok_created(st, name) == TRUE

\* State::get_storage / get_storage_mut: Some(storage) => Ok, else Err
get_storage_ok(st, name) == name \in DOMAIN st

\* State::is_complete
is_complete == complete

\* add_success_to_history replacing the log by the new entry
add_success_to_history_reset(h, inv, result) == <<with_result(inv, result)>>

\* State::add_success_to_history
add_success_to_history(h, inv, result) == History_push(h, with_result(inv, result))

\* add_error_to_history dropping the entry
add_error_to_history_dropped(h, inv, error) == h

\* State::add_error_to_history
add_error_to_history(h, inv, error) == History_push(h, with_error(inv, error))

\* State::add_unparsed_response_to_history
add_unparsed_response_to_history(h, response, error) ==
    History_push(h, with_unparsed_response(response, error))

\* State::get_action: [ns, idx] of the first match, None when there is none
RECURSIVE ScanActions(_, _, _)
ScanActions(actions, name, j) ==
    IF j > Len(actions) THEN 0
    ELSE IF name = actions[j] THEN j ELSE ScanActions(actions, name, j + 1)

RECURSIVE ScanNamespaces(_, _, _)
ScanNamespaces(nss, name, i) ==
    IF i > Len(nss) THEN [found |-> FALSE, group |-> 0, action |-> 0]
    ELSE LET j == ScanActions(nss[i].actions, name, 1)
         IN  IF j > 0 THEN [found |-> TRUE, group |-> i, action |-> j]
             ELSE ScanNamespaces(nss, name, i + 1)

\* get_action returning the last match of the scan
RECURSIVE ScanNamespaces_last(_, _, _)
ScanNamespaces_last(nss, name, i) ==
    IF i < 1 THEN [found |-> FALSE, group |-> 0, action |-> 0]
    ELSE LET j == ScanActions(nss[i].actions, name, 1)
         IN  IF j > 0 THEN [found |-> TRUE, group |-> i, action |-> j]
             ELSE ScanNamespaces_last(nss, name, i - 1)

get_action_last(nss, name) == ScanNamespaces_last(nss, name, Len(nss))

get_action(nss, name) == ScanNamespaces(nss, name, 1)

\* State::on_event: events_tx.send(event) fails when the receiver is gone
on_event_ok(open) == open

\* on_complete leaving the flag as it is
on_complete_flag_kept(c) == c

\* State::on_complete: the flag after the call
on_complete_flag(c) == TRUE

----------------------------------------------------------------------------
(* Spec: a caller of the State object *)

\* the arguments the caller passes
ApiInvocations == {[action |-> "http-request"]}
ApiResults == {"200 OK"}
ApiErrors == {"404 Not Found"}
ApiResponses == {"not an invocation"}
ApiStorageNames == {"http-headers", "goal", "memories"}
ApiActionNames == {"http-request", "undefined-action"}

NoCalls == [on_step |-> 0, push |-> 0, step |-> 0, sent |-> 0]

\* the State that State::new returns for a task, when it returns one
Constructed(tk, max_iterations) ==
    LET s == State_new(tk, max_iterations)
    IN  /\ s.ok
        /\ task = tk
        /\ namespaces = s.namespaces
        /\ storages = s.storages
        /\ history = s.history
        /\ rag = s.rag
        /\ complete = s.complete
        /\ metrics = s.metrics

Init ==
    /\ \E tk \in Tasks, b \in Budgets : Constructed(tk, b)
    /\ lock = "free"
    /\ events_open = TRUE
    /\ variables = {}
    /\ pc = "caller"
    /\ invocation = NoInvocation
    /\ ret = [op |-> "new", ok |-> TRUE, val |-> Unit]
    /\ calls = NoCalls

OnStep ==
    /\ calls.on_step < MaxCalls
    /\ on_step
    /\ UNCHANGED <<task, lock, namespaces, storages, history, rag, complete, events_open,
                   variables, pc, invocation>>

RagQuery ==
    /\ ret' = [op |-> "rag_query", ok |-> rag_query_ok(rag), val |-> Unit]
    /\ UNCHANGED <<task, lock, namespaces, storages, history, rag, complete, metrics,
                   events_open, variables, pc, invocation, calls>>

ToChatHistory ==
    \E max \in 0..MaxWindow :
        /\ ret' = [op |-> "to_chat_history", ok |-> TRUE,
                   val |-> [max |-> max, messages |-> to_chat_history(history, max)]]
        /\ UNCHANGED <<task, lock, namespaces, storages, history, rag, complete, metrics,
                       events_open, variables, pc, invocation, calls>>

GetStorage ==
    \E name \in ApiStorageNames :
        /\ ret' = [op |-> "get_storage", ok |-> get_storage_ok(storages, name),
                   val |-> name]
        /\ UNCHANGED <<task, lock, namespaces, storages, history, rag, complete, metrics,
                       events_open, variables, pc, invocation, calls>>

GetStorageMut ==
    \E name \in ApiStorageNames :
        /\ ret' = [op |-> "get_storage_mut", ok |-> get_storage_ok(storages, name),
                   val |-> name]
        /\ UNCHANGED <<task, lock, namespaces, storages, history, rag, complete, metrics,
                       events_open, variables, pc, invocation, calls>>

AddSuccessToHistory ==
    \E inv \in ApiInvocations, result \in ApiResults :
        /\ calls.push < MaxHistory
        /\ history' = add_success_to_history(history, inv, result)
        /\ ret' = [op |-> "add_success_to_history", ok |-> TRUE,
                   val |-> with_result(inv, result)]
        /\ calls' = [calls EXCEPT !.push = @ + 1]
        /\ UNCHANGED <<task, lock, namespaces, storages, rag, complete, metrics,
                       events_open, variables, pc, invocation>>

AddErrorToHistory ==
    \E inv \in ApiInvocations, error \in ApiErrors :
        /\ calls.push < MaxHistory
        /\ history' = add_error_to_history(history, inv, error)
        /\ ret' = [op |-> "add_error_to_history", ok |-> TRUE,
                   val |-> with_error(inv, error)]
        /\ calls' = [calls EXCEPT !.push = @ + 1]
        /\ UNCHANGED <<task, lock, namespaces, storages, rag, complete, metrics,
                       events_open, variables, pc, invocation>>

AddUnparsedResponseToHistory ==
    \E response \in ApiResponses, error \in ApiErrors :
        /\ calls.push < MaxHistory
        /\ history' = add_unparsed_response_to_history(history, response, error)
        /\ ret' = [op |-> "add_unparsed_response_to_history", ok |-> TRUE,
                   val |-> with_unparsed_response(response, error)]
        /\ calls' = [calls EXCEPT !.push = @ + 1]
        /\ UNCHANGED <<task, lock, namespaces, storages, rag, complete, metrics,
                       events_open, variables, pc, invocation>>

GetAction ==
    \E name \in ApiActionNames :
        /\ ret' = [op |-> "get_action", ok |-> get_action(namespaces, name).found,
                   val |-> [name |-> name, at |-> get_action(namespaces, name)]]
        /\ UNCHANGED <<task, lock, namespaces, storages, history, rag, complete, metrics,
                       events_open, variables, pc, invocation, calls>>

\* on_complete setting the flag only once the event was delivered
OnComplete_delivered ==
    /\ complete' = (complete \/ on_event_ok(events_open))
    /\ ret' = [op |-> "on_complete", ok |-> on_event_ok(events_open), val |-> Unit]
    /\ UNCHANGED <<task, lock, namespaces, storages, history, rag, metrics,
                   events_open, variables, pc, invocation, calls>>

OnComplete ==
    /\ complete' = on_complete_flag(complete)
    /\ ret' = [op |-> "on_complete", ok |-> on_event_ok(events_open), val |-> Unit]
    /\ UNCHANGED <<task, lock, namespaces, storages, history, rag, metrics, events_open,
                   variables, pc, invocation, calls>>

OnEvent ==
    /\ ret' = [op |-> "on_event", ok |-> on_event_ok(events_open), val |-> Unit]
    /\ UNCHANGED <<task, lock, namespaces, storages, history, rag, complete, metrics,
                   events_open, variables, pc, invocation, calls>>

\* the consumer of the events channel goes away
DropReceiver ==
    /\ events_open
    /\ events_open' = FALSE
    /\ UNCHANGED <<task, lock, namespaces, storages, history, rag, complete, metrics,
                   variables, pc, invocation, ret, calls>>

Next ==
    \/ OnStep
    \/ RagQuery
    \/ ToChatHistory
    \/ GetStorage
    \/ GetStorageMut
    \/ AddSuccessToHistory
    \/ AddErrorToHistory
    \/ AddUnparsedResponseToHistory
    \/ GetAction
    \/ OnComplete
    \/ OnEvent
    \/ DropReceiver

Spec == Init /\ [][Next]_vars

----------------------------------------------------------------------------
(* The actions the driver can dispatch *)

Ok(text) == [ok |-> TRUE, text |-> text]
Err(text) == [ok |-> FALSE, text |-> text]

\* Request without its required variable
required_variables_none(action) == {}

\* Action::required_variables: Request overrides it, the others keep the default
required_variables(action) ==
    IF action = "http-request" THEN {"HTTP_TARGET"} ELSE {}

\* Action::timeout: Request declares 30 seconds, the others none
has_timeout(action) == action = "http-request"

\* Request::create_url_from: the target variable, then Url::parse and join
create_url_from(defined) ==
    IF "HTTP_TARGET" \notin defined
    THEN {Err("HTTP_TARGET not defined")}
    ELSE {Ok("url"), Err("can't parse")}

\* Request::run: what it can return (the response is the server's choice)
Request_run(defined, st) ==
    UNION { IF url.ok
            THEN IF get_storage_ok(st, "http-headers")
                 THEN {Ok("200 OK"), Err("404 Not Found")}
                 ELSE {Err("storage http-headers not found")}
            ELSE {url}
          : url \in create_url_from(defined) }

----------------------------------------------------------------------------
(* SpecRun: main's loop around Agent::step *)

\* what the generator can answer: text that parses to one of these
\* invocations, or text that does not parse
ReplyActions == {"http-request", "task-complete", "undefined-action"}
UnparsedReply == "not an invocation"
ParseError == "no valid invocation found"

InitRun ==
    /\ \E tk \in Tasks, b \in Budgets : Constructed(tk, b)
    /\ lock = "free"
    /\ events_open = TRUE
    /\ variables \in SUBSET {"HTTP_TARGET"}
    /\ pc = "loop"
    /\ invocation = NoInvocation
    /\ ret = [op |-> "new", ok |-> TRUE, val |-> Unit]
    /\ calls = NoCalls

\* main looping whatever the completion flag says
loop_continues_always(c) == TRUE

\* main: while !agent.is_state_complete()
loop_continues(c) == ~c

\* main: the loop condition is false, main returns
MainDone ==
    /\ pc = "loop"
    /\ ~loop_continues(is_complete)
    /\ pc' = "done"
    /\ UNCHANGED <<task, lock, namespaces, storages, history, rag, complete, metrics,
                   events_open, variables, invocation, ret, calls>>

\* main invoking agent.step() without awaiting the one in flight
MainStep_unawaited ==
    /\ pc \in {"loop", "response"}
    /\ loop_continues(is_complete)
    /\ calls.step < MaxCalls
    /\ pc' = "step"
    /\ calls' = [calls EXCEPT !.step = @ + 1]
    /\ UNCHANGED <<task, lock, namespaces, storages, history, rag, complete, metrics,
                   events_open, variables, invocation, ret>>

\* main: the loop condition is true, agent.step() is invoked
MainStep ==
    /\ pc = "loop"
    /\ loop_continues(is_complete)
    /\ calls.step < MaxCalls
    /\ pc' = "step"
    /\ calls' = [calls EXCEPT !.step = @ + 1]
    /\ UNCHANGED <<task, lock, namespaces, storages, history, rag, complete, metrics,
                   events_open, variables, invocation, ret>>

\* main: where the loop goes after agent.step() returned
after_step(ok) == IF ok THEN "loop" ELSE "failed"

\* Agent::step: advance the step counter, fail fast on the budget
StepOnStep ==
    /\ pc = "step"
    /\ on_step
    /\ pc' = IF ret'.ok THEN "chat" ELSE after_step(FALSE)
    /\ UNCHANGED <<task, lock, namespaces, storages, history, rag, complete, events_open,
                   variables, invocation>>

\* Agent::step: the generator's reply does not parse into an Invocation
StepUnparsed ==
    /\ pc = "chat"
    /\ history' = add_unparsed_response_to_history(history, UnparsedReply, ParseError)
    /\ ret' = [op |-> "add_unparsed_response_to_history", ok |-> TRUE,
               val |-> with_unparsed_response(UnparsedReply, ParseError)]
    /\ calls' = [calls EXCEPT !.push = @ + 1]
    /\ pc' = after_step(TRUE)
    /\ UNCHANGED <<task, lock, namespaces, storages, rag, complete, metrics, events_open,
                   variables, invocation>>

\* Agent::step: the generator's reply parses into an Invocation
StepParsed ==
    \E a \in ReplyActions :
        /\ pc = "chat"
        /\ invocation' = [action |-> a]
        /\ pc' = "dispatch"
        /\ UNCHANGED <<task, lock, namespaces, storages, history, rag, complete, metrics,
                       events_open, variables, ret, calls>>

\* the error the dispatcher finds before running the action, None if none
dispatch_error(nss, defined, inv) ==
    IF ~get_action(nss, inv.action).found
    THEN "not a valid action"
    ELSE IF required_variables(inv.action) \subseteq defined
         THEN None
         ELSE "required variable not defined"

\* Agent::step: the invocation is refused before the action runs
StepRefused ==
    /\ pc = "dispatch"
    /\ dispatch_error(namespaces, variables, invocation) # None
    /\ LET e == dispatch_error(namespaces, variables, invocation)
       IN  /\ history' = add_error_to_history(history, invocation, e)
           /\ ret' = [op |-> "add_error_to_history", ok |-> TRUE,
                      val |-> with_error(invocation, e)]
    /\ calls' = [calls EXCEPT !.push = @ + 1]
    /\ invocation' = NoInvocation
    /\ pc' = after_step(TRUE)
    /\ UNCHANGED <<task, lock, namespaces, storages, rag, complete, metrics, events_open,
                   variables>>

\* Agent::step: the invocation is valid, the action's run starts
StepAccepted ==
    /\ pc = "dispatch"
    /\ dispatch_error(namespaces, variables, invocation) = None
    /\ pc' = "run"
    /\ UNCHANGED <<task, lock, namespaces, storages, history, rag, complete, metrics,
                   events_open, variables, invocation, ret, calls>>

\* the record the dispatcher appends for what the action returned
record_outcome(h, inv, out) ==
    IF out.ok THEN add_success_to_history(h, inv, out.text)
    ELSE add_error_to_history(h, inv, out.text)

Recorded(out) ==
    /\ history' = record_outcome(history, invocation, out)
    /\ ret' = [op |-> IF out.ok THEN "add_success_to_history"
                      ELSE "add_error_to_history",
               ok |-> TRUE,
               val |-> IF out.ok THEN with_result(invocation, out.text)
                       ELSE with_error(invocation, out.text)]
    /\ calls' = [calls EXCEPT !.push = @ + 1]
    /\ invocation' = NoInvocation
    /\ pc' = after_step(TRUE)

\* Agent::step: http-request runs to its end
StepRunRequest ==
    /\ pc = "run"
    /\ invocation.action = "http-request"
    /\ \E out \in Request_run(variables, storages) : Recorded(out)
    /\ UNCHANGED <<task, lock, namespaces, storages, rag, complete, metrics, events_open,
                   variables>>

\* Agent::step: the action's timeout elapses before its run returns
StepTimeout ==
    /\ pc = "run"
    /\ has_timeout(invocation.action)
    /\ Recorded(Err("action timed out"))
    /\ UNCHANGED <<task, lock, namespaces, storages, rag, complete, metrics, events_open,
                   variables>>

\* Agent::step: task-complete runs: state.on_complete(..)
StepRunComplete ==
    /\ pc = "run"
    /\ invocation.action = "task-complete"
    /\ complete' = on_complete_flag(complete)
    /\ Recorded(IF on_event_ok(events_open) THEN Ok("task complete")
                ELSE Err("channel closed"))
    /\ UNCHANGED <<task, lock, namespaces, storages, rag, metrics, events_open, variables>>

NextRun ==
    \/ MainDone
    \/ MainStep
    \/ StepOnStep
    \/ StepUnparsed
    \/ StepParsed
    \/ StepRefused
    \/ StepAccepted
    \/ StepRunRequest
    \/ StepTimeout
    \/ StepRunComplete
    \/ DropReceiver

SpecRun == InitRun /\ [][NextRun]_vars

\* every step of the driver returns: the generator answers and the action
\* ends or times out
FairRun == SpecRun /\ WF_vars(NextRun)

----------------------------------------------------------------------------
(* Properties *)

Appenders == {"add_success_to_history", "add_error_to_history",
              "add_unparsed_response_to_history"}
Lookups == {"get_storage", "get_storage_mut"}
Terminal == {"done", "failed"}
InStep == {"chat", "dispatch", "run"}

Last(h) == h[Len(h)]

\* C1: with a budget B > 0 the N-th call to on_step succeeds if N < B and fails
\* with the maximum-steps error if N >= B, whatever other State operations were
\* called in between
C1_OnStepBudget ==
    (ret.op = "on_step" /\ metrics.max_steps > 0) =>
        (ret.ok <=> calls.on_step < metrics.max_steps)

\* budget 3: the third and the fourth call have failed, after other operations
C1_Witness ==
    /\ ret.op = "on_step" /\ ~ret.ok
    /\ metrics.max_steps = 3
    /\ calls.on_step = 4
    /\ calls.push > 0
    /\ complete

\* C2: with budget 0 every call to on_step succeeds, and the step counter is the
\* number of calls made (each call increments it by exactly one)
C2_OnStepUnlimited ==
    metrics.max_steps = 0 =>
        /\ metrics.current_step = calls.on_step
        /\ ret.op = "on_step" => ret.ok

C2_Witness ==
    /\ metrics.max_steps = 0
    /\ ret.op = "on_step" /\ ret.ok
    /\ calls.on_step = MaxCalls

\* C3: is_complete() is false at construction; a call to on_complete makes it
\* true, no other operation does, and once true it stays true
C3_CompleteIrreversible ==
    /\ ~is_complete
    /\ [][ /\ ret'.op = "on_complete" => is_complete'
           /\ is_complete => is_complete'
           /\ (~is_complete /\ is_complete') => ret'.op = "on_complete" ]_vars

\* complete, with a step, an append and a failed lookup made afterwards
C3_Witness ==
    /\ is_complete
    /\ ret.op \in Lookups /\ ~ret.ok
    /\ calls.on_step > 0
    /\ calls.push > 0
    /\ ~events_open

\* C4: the driver invokes a step only at the head of the loop with the
\* completion flag false; a failed on_step ends the loop, and after the loop
\* has ended (complete, or a step returned an error) no step is invoked
C4_TerminalStates ==
    [][ /\ calls'.step # calls.step => (pc = "loop" /\ ~is_complete)
        /\ is_complete => calls'.step = calls.step
        /\ (pc = "step" /\ pc' # pc /\ ~ret'.ok) => pc' = "failed"
        /\ pc \in Terminal => (pc' = pc /\ calls' = calls /\ history' = history)
      ]_vars

\* the loop ended on completion after more than one step
C4_Witness ==
    /\ pc = "done"
    /\ is_complete
    /\ calls.step >= 2

\* C5: with a budget B > 0 the driver invokes at most B steps and the loop
\* ends, complete or with the budget exhausted
C5_Terminates ==
    /\ [](metrics.max_steps > 0 => calls.step <= metrics.max_steps)
    /\ [](metrics.max_steps > 0 => <>(pc \in Terminal))

\* budget 3, never complete: the third step failed on the budget
C5_Witness ==
    /\ pc = "failed"
    /\ metrics.max_steps = 3
    /\ calls.step = 3
    /\ ~is_complete
    /\ Len(history) = 2

\* C6: a step that got the generator's reply always ends by appending exactly
\* one Execution and returning to the head of the loop: the unparsed-response
\* record with the raw text and the parse error for a reply that does not
\* parse, otherwise a record of the invocation with the failure's message or
\* the result; the loop ends with an error only on a failed on_step
C6_FailuresRecorded ==
    [][ /\ (pc \in InStep /\ pc' \notin InStep) =>
               /\ pc' = "loop"
               /\ Len(history') = Len(history) + 1
               /\ SubSeq(history', 1, Len(history)) = history
               /\ Last(history') = ret'.val
               /\ pc = "chat" =>
                      Last(history') = with_unparsed_response(UnparsedReply, ParseError)
               /\ pc # "chat" =>
                      /\ Last(history').invocation = invocation
                      /\ (Last(history').error = None) # (Last(history').result = None)
               /\ pc = "dispatch" => Last(history').error # None
        /\ (pc' = "failed" /\ pc # "failed") =>
               (pc = "step" /\ ret'.op = "on_step" /\ ~ret'.ok)
      ]_vars

\* a timeout, an unparsed reply and a refused invocation were recorded and a
\* fourth step is under way
C6_Witness ==
    /\ pc = "step"
    /\ calls.step = 4
    /\ Len(history) = 3
    /\ \E i \in 1..3 : history[i].error = "action timed out"
    /\ \E i \in 1..3 : history[i].response = UnparsedReply
    /\ \E i \in 1..3 : history[i].error = "not a valid action"

\* C7: http-request dispatched while HTTP_TARGET is undefined never reaches its
\* run; the dispatch appends exactly one error Execution, changes nothing else
\* of the State and returns to the head of the loop
C7_RequiredVariables ==
    [][ /\ (pc' = "run" /\ invocation'.action = "http-request") =>
               "HTTP_TARGET" \in variables
        /\ ( /\ pc = "dispatch" /\ pc' # pc
             /\ invocation.action = "http-request"
             /\ get_action(namespaces, "http-request").found
             /\ "HTTP_TARGET" \notin variables ) =>
               /\ pc' = "loop"
               /\ history' = Append(history,
                      with_error(invocation, "required variable not defined"))
               /\ UNCHANGED <<storages, complete, metrics, namespaces>>
      ]_vars

\* the refused http-request is the last record and the next step has begun
C7_Witness ==
    /\ pc = "step"
    /\ "HTTP_TARGET" \notin variables
    /\ history # <<>>
    /\ Last(history) = with_error([action |-> "http-request"],
                                  "required variable not defined")

\* C8: the history has one Execution per call of an appender, a call appends
\* the Execution built from its arguments at the end and never fails, and no
\* other operation changes the history
C8_HistoryAppendOnly ==
    /\ [](Len(history) = calls.push)
    /\ [][ \/ history' = history /\ calls'.push = calls.push
           \/ /\ calls'.push = calls.push + 1
              /\ ret'.op \in Appenders
              /\ ret'.ok
              /\ history' = Append(history, ret'.val) ]_vars

\* three appends, one of each kind, with other operations in between
C8_Witness ==
    /\ Len(history) = 3
    /\ history[1].result # None
    /\ history[2].response # None
    /\ history[3].error # None /\ history[3].response = None
    /\ calls.on_step > 0
    /\ ret.op = "rag_query"

\* the rendering of entries E_{n-k+1} .. E_n of h, two messages per entry
Window(h, k) ==
    [j \in 1..(2 * k) |->
        Render(h[Len(h) - k + ((j + 1) \div 2)])[((j - 1) % 2) + 1]]

Min(a, b) == IF a < b THEN a ELSE b

\* C9: to_chat_history(max) returns the rendering of the most recent
\* min(n, max) Executions, oldest first, and leaves the history unchanged
C9_ChatHistoryWindow ==
    /\ [](ret.op = "to_chat_history" =>
            ret.val.messages = Window(history, Min(Len(history), ret.val.max)))
    /\ [][ret'.op = "to_chat_history" => history' = history]_vars

\* three entries, a window of two
C9_Witness ==
    /\ ret.op = "to_chat_history"
    /\ Len(history) = 3
    /\ ret.val.max = 2
    /\ ret.val.messages = Render(history[2]) \o Render(history[3])
    /\ history[2] # history[3]

\* C10: get_storage(x) and get_storage_mut(x) fail exactly when no active
\* namespace declared a storage x, and the storages are at all times the ones
\* the active namespaces declared
C10_StorageLookup ==
    /\ ret.op \in Lookups =>
        (ret.ok <=> \E i \in 1..Len(namespaces) :
                       \E j \in 1..Len(namespaces[i].storages) :
                           namespaces[i].storages[j].name = ret.val)
    /\ DOMAIN storages =
        UNION { {namespaces[i].storages[j].name :
                    j \in 1..Len(namespaces[i].storages)} :
                i \in 1..Len(namespaces) }

\* a failed and repeated lookup of "http-headers" created nothing
C10_Witness ==
    /\ ret.op = "get_storage_mut" /\ ~ret.ok
    /\ ret.val = "http-headers"
    /\ DOMAIN storages = {"goal"}
    /\ calls.push > 0

----------------------------------------------------------------------------
(* SpecNew: State::new applied to a task, then the lookups on its result *)

\* a task namespace list has at most MaxNames names
MaxNames == 3

\* the names a task can ask for: the sentinel, registered and unregistered ones
TaskNames == {"*", "goal", "http", "missing"}

\* a namespace the task defines itself (Task::get_functions): it has an
\* action and a storage with the names of the http namespace's
CustomNamespace ==
    [name |-> "Custom", default |-> FALSE,
     actions |-> <<"custom-action", "http-request">>,
     storages |-> <<[name |-> "http-headers", type_ |-> "untagged"]>>]

NameLists == UNION { [1..n -> TaskNames] : n \in 0..MaxNames }

NewTasks ==
    [namespaces : {Absent} \cup {Some(l) : l \in NameLists},
     rag_config : BOOLEAN,
     functions  : {<<>>, <<CustomNamespace>>}]

\* before State::new has run there is no State
InitNew ==
    /\ task \in NewTasks
    /\ lock = "free"
    /\ namespaces = <<>>
    /\ storages = NoStorages
    /\ history = <<>>
    /\ rag = FALSE
    /\ complete = FALSE
    /\ metrics = [current_step |-> 0, max_steps |-> 0]
    /\ events_open = TRUE
    /\ variables = {}
    /\ pc = "new"
    /\ invocation = NoInvocation
    /\ ret = [op |-> "none", ok |-> TRUE, val |-> Unit]
    /\ calls = NoCalls

\* State::new returns Ok(Self {..}) or Err("no namespace '..' defined")
New ==
    /\ pc = "new"
    /\ \E b \in Budgets :
        LET s == State_new(task, b)
        IN  IF s.ok
            THEN /\ namespaces' = s.namespaces
                 /\ storages' = s.storages
                 /\ history' = s.history
                 /\ rag' = s.rag
                 /\ complete' = s.complete
                 /\ metrics' = s.metrics
                 /\ ret' = [op |-> "new", ok |-> TRUE, val |-> Unit]
                 /\ pc' = "caller"
            ELSE /\ ret' = [op |-> "new", ok |-> FALSE, val |-> s.err]
                 /\ pc' = "no state"
                 /\ UNCHANGED <<namespaces, storages, history, rag, complete,
                                metrics>>
    /\ UNCHANGED <<task, lock, events_open, variables, invocation, calls>>

NewGetAction == pc = "caller" /\ GetAction

NewGetStorage == pc = "caller" /\ GetStorage

NewRagQuery == pc = "caller" /\ RagQuery

NextNew ==
    \/ New
    \/ NewGetAction
    \/ NewGetStorage
    \/ NewRagQuery

SpecNew == InitNew /\ [][NextNew]_vars

----------------------------------------------------------------------------
(* Properties of State::new *)

\* the names the task asked for
Requested == IF task.namespaces.some THEN task.namespaces.val ELSE <<>>

HasSentinel == \E i \in 1..Len(Requested) : Requested[i] = "*"

\* the names asked for, the sentinel aside
ExplicitNames == {Requested[i] : i \in 1..Len(Requested)} \ {"*"}

Registered == {RegistryKeys[i] : i \in 1..Len(RegistryKeys)}

DefaultSet == {NAMESPACES(k) : k \in {r \in Registered : NAMESPACES(r).default}}

\* the namespaces State::new adds whatever the task's list says
ExtraSet ==
    (IF task.rag_config THEN {RagNamespace} ELSE {})
        \cup {task.functions[i] : i \in 1..Len(task.functions)}

ActiveSet == {namespaces[i] : i \in 1..Len(namespaces)}

\* C11: a list with the sentinel, once or more than once, and explicit names
\* that are all registered constructs a State whose active namespaces are the
\* default ones united with the explicitly named ones
C11_WildcardUnion ==
    (pc # "new" /\ HasSentinel /\ ExplicitNames \subseteq Registered) =>
        /\ pc = "caller"
        /\ ActiveSet = DefaultSet \cup {NAMESPACES(n) : n \in ExplicitNames}
                           \cup ExtraSet

\* C12: State::new fails with "no namespace '<name>' defined" exactly when an
\* explicit name of the list is not registered, it then produces no State, and
\* without a list it activates exactly the default namespaces
C12_ConstructionFails ==
    pc # "new" =>
        /\ pc = "no state" <=> ~(ExplicitNames \subseteq Registered)
        /\ pc = "no state" =>
              /\ ret.op = "new" /\ ~ret.ok
              /\ ret.val \in ExplicitNames \ Registered
              /\ namespaces = <<>> /\ storages = NoStorages
        /\ ~task.namespaces.some =>
              /\ pc = "caller"
              /\ ActiveSet = DefaultSet \cup ExtraSet
              /\ Len(namespaces) = Cardinality(DefaultSet \cup ExtraSet)

\* the places (namespace, action) of the active list that hold an action name
Holders(name) ==
    UNION { {<<i, j>> : j \in {k \in 1..Len(namespaces[i].actions) :
                                  namespaces[i].actions[k] = name}} :
            i \in 1..Len(namespaces) }

Earlier(p, q) == p[1] < q[1] \/ (p[1] = q[1] /\ p[2] <= q[2])

\* C13: get_action(name) returns the first action of that name in list order
\* of the active namespaces and declaration order of their actions, and none
\* exactly when no active namespace has an action of that name
C13_GetActionFirstMatch ==
    ret.op = "get_action" =>
        LET at == ret.val.at
        IN  /\ at.found <=> Holders(ret.val.name) # {}
            /\ at.found =>
                  /\ <<at.group, at.action>> \in Holders(ret.val.name)
                  /\ \A q \in Holders(ret.val.name) :
                        Earlier(<<at.group, at.action>>, q)

\* "http-request" is in the http namespace and in the task's own, later one
C13_Witness ==
    /\ ret.op = "get_action"
    /\ ret.val.name = "http-request"
    /\ ret.val.at.found
    /\ namespaces[ret.val.at.group] = HttpNamespace
    /\ \E i \in 1..Len(namespaces) :
          i > ret.val.at.group /\ namespaces[i] = CustomNamespace

\* C14: without a retrieval configuration in the task there is no engine, at
\* any point of the run, and rag_query fails
C14_NoRagEngine ==
    /\ rag = task.rag_config
    /\ (ret.op = "rag_query" /\ ~task.rag_config) => ~ret.ok

\* rag_query failed after steps, appends and completion
C14_Witness ==
    /\ ~task.rag_config
    /\ ret.op = "rag_query" /\ ~ret.ok
    /\ calls.on_step > 0
    /\ calls.push > 0
    /\ is_complete

\* the declarations of a storage name, as places (namespace, descriptor)
Declarations(name) ==
    UNION { {<<i, j>> : j \in {k \in 1..Len(namespaces[i].storages) :
                                  namespaces[i].storages[k].name = name}} :
            i \in 1..Len(namespaces) }

DeclaredNames ==
    UNION { {namespaces[i].storages[j].name :
                j \in 1..Len(namespaces[i].storages)} :
            i \in 1..Len(namespaces) }

\* C16: after construction there is one storage per declared name, and it has
\* the type of the first declaration of that name in active-namespace order
C16_FirstDeclarationWins ==
    pc = "caller" =>
        /\ DOMAIN storages = DeclaredNames
        /\ \A name \in DOMAIN storages :
              \E p \in Declarations(name) :
                  /\ \A q \in Declarations(name) : Earlier(p, q)
                  /\ storages[name].type_ =
                         namespaces[p[1]].storages[p[2]].type_

\* "http-headers" is declared by the http namespace, twice, and with another
\* type by the task's own namespace
C16_Witness ==
    /\ pc = "caller"
    /\ Cardinality(Declarations("http-headers")) = 3
    /\ namespaces[Len(namespaces)] = CustomNamespace
    /\ storages["http-headers"].type_ = "tagged"

\* how many times x is in the sequence q
Count(q, x) == Cardinality({i \in 1..Len(q) : q[i] = x})

\* C17: when State::new succeeds on a list with the sentinel and the explicit
\* name of a default namespace, that namespace is in the active list once from
\* the wildcard expansion and once more, after the expansion, for each time the
\* list names it
C17_DuplicateNamespace ==
    \A n \in ExplicitNames \cap Registered :
        (pc = "caller" /\ HasSentinel /\ NAMESPACES(n).default) =>
            /\ Count(namespaces, NAMESPACES(n)) = 1 + Count(Requested, n)
            /\ Count(SubSeq(namespaces, 1, Cardinality(DefaultSet)),
                     NAMESPACES(n)) = 1
            /\ Count(namespaces, NAMESPACES(n)) >= 2

\* ["*", "goal"]: the goal namespace twice
C17_Witness ==
    /\ pc = "caller"
    /\ Requested = <<"*", "goal">>
    /\ Count(namespaces, GoalNamespace) = 2

\* a step in which a method returned, seen by its name or result changing
Returned == ret'.op # ret.op \/ ret'.ok # ret.ok

State_fields == <<task, namespaces, storages, history, rag, complete, metrics>>

\* C18: on_complete and on_event fail exactly when the receiver is gone; the
\* completion flag is true after on_complete even when it failed, and stays
\* true; on_event changes no field of the State
C18_FailedCompleteKeepsFlag ==
    /\ [](ret.op = "on_complete" => is_complete)
    /\ [][ /\ (Returned /\ ret'.op \in {"on_complete", "on_event"}) =>
                  (ret'.ok <=> events_open)
           /\ (Returned /\ ret'.op = "on_event") => UNCHANGED State_fields
           /\ is_complete => is_complete' ]_vars

\* on_complete failed on the closed channel and the flag is set
C18_Witness ==
    /\ ret.op = "on_complete" /\ ~ret.ok
    /\ ~events_open
    /\ is_complete

----------------------------------------------------------------------------
(* The http actions, one step per lock acquisition and per await *)

HttpActions == {"http-set-header", "http-clear-headers", "http-request"}

\* what Action::run returned, and the place it returned from
Returns(out) ==
    /\ ret' = [op |-> "run", ok |-> out.ok, val |-> out.text, from |-> pc]
    /\ pc' = "returned"

StorageNotFound == Err("storage http-headers not found")

\* Storage::add_tagged(key, data)
add_tagged(storage, key) == [storage EXCEPT !.data = @ \cup {key}]

\* Storage::clear()
clear(storage) == [storage EXCEPT !.data = {}]

\* state.lock().await returns: the mutex was free and is now the action's
acquired(l) == "action"

\* a MutexGuard goes out of scope
released(l) == "free"

\* create_url_from keeping its guard alive after it returned
create_url_from_unlocks_never(l) == l

\* create_url_from returns: its local guard 'lock' is dropped
create_url_from_unlocks(l) == released(l)

\* the timeout drops the future of run, and with it the guard it may hold
dropped(l) == IF l = "action" THEN released(l) ELSE l

\* SetHeader::run: state.lock().await
SetHeaderLock ==
    /\ pc = "run"
    /\ invocation.action = "http-set-header"
    /\ lock = "free"
    /\ lock' = acquired(lock)
    /\ pc' = "set-header locked"
    /\ UNCHANGED <<task, namespaces, storages, history, rag, complete, metrics,
                   events_open, variables, invocation, ret, calls>>

\* SetHeader::run: get_storage_mut("http-headers")?.add_tagged(key, &data)
SetHeaderBody ==
    /\ pc = "set-header locked"
    /\ IF get_storage_ok(storages, "http-headers")
       THEN /\ storages' = [storages EXCEPT !["http-headers"] =
                                add_tagged(@, "X-Header")]
            /\ Returns(Ok("header set"))
       ELSE /\ storages' = storages
            /\ Returns(StorageNotFound)
    /\ lock' = released(lock)
    /\ UNCHANGED <<task, namespaces, history, rag, complete, metrics,
                   events_open, variables, invocation, calls>>

\* ClearHeaders::run: state.lock().await
ClearHeadersLock ==
    /\ pc = "run"
    /\ invocation.action = "http-clear-headers"
    /\ lock = "free"
    /\ lock' = acquired(lock)
    /\ pc' = "clear-headers locked"
    /\ UNCHANGED <<task, namespaces, storages, history, rag, complete, metrics,
                   events_open, variables, invocation, ret, calls>>

\* ClearHeaders::run: get_storage_mut("http-headers")?.clear()
ClearHeadersBody ==
    /\ pc = "clear-headers locked"
    /\ IF get_storage_ok(storages, "http-headers")
       THEN /\ storages' = [storages EXCEPT !["http-headers"] = clear(@)]
            /\ Returns(Ok("http headers cleared"))
       ELSE /\ storages' = storages
            /\ Returns(StorageNotFound)
    /\ lock' = released(lock)
    /\ UNCHANGED <<task, namespaces, history, rag, complete, metrics,
                   events_open, variables, invocation, calls>>

\* Request::run: reqwest::Method::from_str(..)?
RequestMethod ==
    /\ pc = "run"
    /\ invocation.action = "http-request"
    /\ \/ pc' = "url lock" /\ ret' = ret
       \/ Returns(Err("invalid HTTP method"))
    /\ UNCHANGED <<task, lock, namespaces, storages, history, rag, complete,
                   metrics, events_open, variables, invocation, calls>>

\* Request::create_url_from: let lock = state.lock().await
RequestUrlLock ==
    /\ pc = "url lock"
    /\ lock = "free"
    /\ lock' = acquired(lock)
    /\ pc' = "url locked"
    /\ UNCHANGED <<task, namespaces, storages, history, rag, complete, metrics,
                   events_open, variables, invocation, ret, calls>>

\* Request::create_url_from: the rest of it, and its return
RequestUrl ==
    /\ pc = "url locked"
    /\ \E url \in create_url_from(variables) :
          IF url.ok THEN pc' = "headers lock" /\ ret' = ret
          ELSE Returns(url)
    /\ lock' = create_url_from_unlocks(lock)
    /\ UNCHANGED <<task, namespaces, storages, history, rag, complete, metrics,
                   events_open, variables, invocation, calls>>

\* Request::run: let lock = state.lock().await
RequestHeadersLock ==
    /\ pc = "headers lock"
    /\ lock = "free"
    /\ lock' = acquired(lock)
    /\ pc' = "headers locked"
    /\ UNCHANGED <<task, namespaces, storages, history, rag, complete, metrics,
                   events_open, variables, invocation, ret, calls>>

\* Request::run sending whatever the lookup of the headers says
RequestHeaders_unchecked ==
    /\ pc = "headers locked"
    /\ pc' = "send"
    /\ UNCHANGED <<task, lock, namespaces, storages, history, rag, complete,
                   metrics, events_open, variables, invocation, ret, calls>>

\* Request::run: let headers = lock.get_storage("http-headers")?
RequestHeaders ==
    /\ pc = "headers locked"
    /\ IF get_storage_ok(storages, "http-headers")
       THEN pc' = "send" /\ ret' = ret /\ lock' = lock
       ELSE Returns(StorageNotFound) /\ lock' = released(lock)
    /\ UNCHANGED <<task, namespaces, storages, history, rag, complete, metrics,
                   events_open, variables, invocation, calls>>

\* Request::run: client.send() puts the request on the network
RequestSend ==
    /\ pc = "send"
    /\ calls' = [calls EXCEPT !.sent = @ + 1]
    /\ pc' = "response"
    /\ UNCHANGED <<task, lock, namespaces, storages, history, rag, complete,
                   metrics, events_open, variables, invocation, ret>>

\* Request::run: send().await and text().await end; run returns
RequestResponse ==
    /\ pc = "response"
    /\ \E out \in {Ok("200 OK"), Err("404 Not Found"), Err("connection failed")} :
          Returns(out)
    /\ lock' = released(lock)
    /\ UNCHANGED <<task, namespaces, storages, history, rag, complete, metrics,
                   events_open, variables, invocation, calls>>

\* the places where Request::run awaits
RequestAwaits == {"url lock", "headers lock", "response"}

\* the timeout of http-request elapses while run awaits
RequestTimeout ==
    /\ pc \in RequestAwaits
    /\ has_timeout(invocation.action)
    /\ Returns(Err("action timed out"))
    /\ lock' = dropped(lock)
    /\ UNCHANGED <<task, namespaces, storages, history, rag, complete, metrics,
                   events_open, variables, invocation, calls>>

----------------------------------------------------------------------------
(* SpecHttp: a caller running the http actions on a State *)

\* the caller runs at most MaxSent actions after the last request went out
MaxSent == 2

InitHttp ==
    /\ \E tk \in Tasks : Constructed(tk, 0)
    /\ lock = "free"
    /\ events_open = TRUE
    /\ variables \in SUBSET {"HTTP_TARGET"}
    /\ pc = "idle"
    /\ invocation = NoInvocation
    /\ ret = [op |-> "new", ok |-> TRUE, val |-> Unit]
    /\ calls = NoCalls

\* action.run(state, attrs, payload) is called while the lock is free
HttpCall ==
    /\ pc = "idle"
    /\ lock = "free"
    /\ calls.sent < MaxSent
    /\ \E a \in HttpActions : invocation' = [action |-> a]
    /\ pc' = "run"
    /\ UNCHANGED <<task, lock, namespaces, storages, history, rag, complete,
                   metrics, events_open, variables, ret, calls>>

\* the caller has the result of run
HttpReturn ==
    /\ pc = "returned"
    /\ pc' = "idle"
    /\ invocation' = NoInvocation
    /\ UNCHANGED <<task, lock, namespaces, storages, history, rag, complete,
                   metrics, events_open, variables, ret, calls>>

HttpRun ==
    \/ SetHeaderLock
    \/ SetHeaderBody
    \/ ClearHeadersLock
    \/ ClearHeadersBody
    \/ RequestMethod
    \/ RequestUrlLock
    \/ RequestUrl
    \/ RequestHeadersLock
    \/ RequestHeaders
    \/ RequestSend
    \/ RequestResponse
    \/ RequestTimeout

NextHttp ==
    \/ HttpCall
    \/ HttpRun
    \/ HttpReturn

SpecHttp == InitHttp /\ [][NextHttp]_vars

----------------------------------------------------------------------------
(* SpecLock: the driver's loop with the state lock and the http actions *)

InitLock ==
    /\ \E tk \in Tasks : Constructed(tk, MaxBudget)
    /\ lock = "free"
    /\ events_open = TRUE
    /\ variables \in SUBSET {"HTTP_TARGET"}
    /\ pc = "loop"
    /\ invocation = NoInvocation
    /\ ret = [op |-> "new", ok |-> TRUE, val |-> Unit]
    /\ calls = NoCalls

\* Agent::step: state.lock().await.on_step()
LockOnStep == lock = "free" /\ StepOnStep

\* Agent::step: the unparsed reply is recorded under the lock
LockUnparsed == lock = "free" /\ StepUnparsed

\* Agent::step: the generator's reply parses into an Invocation of http
LockParsed ==
    \E a \in HttpActions :
        /\ pc = "chat"
        /\ invocation' = [action |-> a]
        /\ pc' = "dispatch"
        /\ UNCHANGED <<task, lock, namespaces, storages, history, rag, complete, metrics,
                       events_open, variables, ret, calls>>

\* Agent::step: the refusal is recorded under the lock
LockRefused == lock = "free" /\ StepRefused

\* Agent::step: the action is looked up and validated under the lock
LockAccepted == lock = "free" /\ StepAccepted

\* Agent::step: the outcome of run is recorded under the lock
LockRecorded ==
    /\ pc = "returned"
    /\ lock = "free"
    /\ Recorded([ok |-> ret.ok, text |-> ret.val])
    /\ UNCHANGED <<task, lock, namespaces, storages, rag, complete, metrics,
                   events_open, variables>>

NextLock ==
    \/ MainStep
    \/ LockOnStep
    \/ LockUnparsed
    \/ LockParsed
    \/ LockRefused
    \/ LockAccepted
    \/ HttpRun
    \/ LockRecorded

SpecLock == InitLock /\ [][NextLock]_vars

----------------------------------------------------------------------------
(* Properties of the http actions *)

\* the places where an http action requests the state lock
RequestsLock ==
    \/ pc = "run" /\ invocation.action \in {"http-set-header", "http-clear-headers"}
    \/ pc \in {"url lock", "headers lock"}

\* C19: an http action started while the state lock is free never requests
\* the lock while it holds it (the lock taken to build the URL is released
\* before http-request locks again for the headers), and once run has ended,
\* by success, by a returned error or by its timeout, the lock is free.
C19_NoSelfDeadlock ==
    /\ RequestsLock => lock = "free"
    /\ pc \in {"returned", "idle"} => lock = "free"

\* http-request was abandoned by its timeout while awaiting the response,
\* a request being out and the lock held until then
C19_Witness ==
    /\ pc = "returned"
    /\ invocation.action = "http-request"
    /\ ret.op = "run"
    /\ ret.val = "action timed out"
    /\ ret.from = "response"
    /\ calls.sent > 0
    /\ lock = "free"

\* what run returns when a precondition of http-request does not hold
PreconditionErrors ==
    {"HTTP_TARGET not defined", "can't parse", "storage http-headers not found"}

\* run ends in this step
Ends == pc # "returned" /\ pc' = "returned"

\* C20: http-request sends only with HTTP_TARGET defined, the URL built and
\* "http-headers" existing; a run that ends on a failed precondition ends
\* before the send, and http-request changes no storage and never the
\* History; http-set-header and http-clear-headers end with the
\* storage-not-found error and change nothing when "http-headers" was
\* not declared.
C20_NoRequestOnFailure ==
    [][ /\ calls'.sent # calls.sent =>
              /\ pc = "send"
              /\ invocation.action = "http-request"
              /\ "HTTP_TARGET" \in variables
              /\ "http-headers" \in DOMAIN storages
        /\ pc' = "send" => pc = "headers locked" /\ "http-headers" \in DOMAIN storages
        /\ pc' = "headers lock" => pc = "url locked" /\ "HTTP_TARGET" \in variables
        /\ (Ends /\ invocation.action = "http-request"
                 /\ (\/ "HTTP_TARGET" \notin variables
                     \/ "http-headers" \notin DOMAIN storages
                     \/ ret'.val \in PreconditionErrors)) =>
              /\ ~ret'.ok
              /\ pc \notin {"send", "response"}
              /\ calls' = calls
        /\ invocation.action = "http-request" => UNCHANGED <<storages, history>>
        /\ (Ends /\ invocation.action \in {"http-set-header", "http-clear-headers"}
                 /\ "http-headers" \notin DOMAIN storages) =>
              /\ ~ret'.ok
              /\ ret'.val = "storage http-headers not found"
              /\ UNCHANGED <<storages, history, calls>>
        /\ history' = history
      ]_vars

\* http-request ended on the missing storage with HTTP_TARGET defined and
\* nothing sent
C20_Witness ==
    /\ pc = "returned"
    /\ invocation.action = "http-request"
    /\ ret.op = "run"
    /\ ret.val = "storage http-headers not found"
    /\ "HTTP_TARGET" \in variables
    /\ calls.sent = 0

----------------------------------------------------------------------------
(* Properties of the lock *)

\* the places of a step where the driver, not the action, works on the State
DriverPlaces == {"step", "chat", "dispatch", "returned"}

\* C15: steps never overlap. A step starts only when the one before has
\* ended, with no invocation in flight and the lock free; the History and
\* the metrics change only in the driver's own sections, entered with the
\* lock free and left with it free; storages change only in an action that
\* holds the lock; and while an action holds the lock or has a request on
\* the network, no step starts and nothing but that action changes State.
C15_StepsNeverOverlap ==
    [][ /\ calls'.step # calls.step =>
              /\ pc = "loop"
              /\ lock = "free"
              /\ invocation = NoInvocation
        /\ (history' # history \/ metrics' # metrics) =>
              /\ pc \in DriverPlaces
              /\ lock = "free"
              /\ lock' = "free"
        /\ storages' # storages =>
              /\ lock = "action"
              /\ pc \in {"set-header locked", "clear-headers locked"}
        /\ lock = "action" =>
              /\ calls'.step = calls.step
              /\ UNCHANGED <<history, metrics, complete>>
              /\ pc' \notin {"loop", "step", "chat", "dispatch", "run"}
      ]_vars

\* the third step starts after a step that set a header and a step whose
\* request went out on the network, both recorded
C15_Witness ==
    /\ pc = "step"
    /\ calls.step = 3
    /\ calls.sent = 1
    /\ Len(history) = 2
    /\ storages["http-headers"].data # {}
    /\ lock = "free"
    /\ invocation = NoInvocation

====
